---- MODULE Spec2Model ----
(***************************************************************************)
(* The L2 gas-pricing controller of package l2pricing                      *)
(* (src/unnamed/part_000) and the helpers of its test                      *)
(* (src/statetransfer/classic_blocks.go, second half).                     *)
(*                                                                         *)
(* Machine words.  The Go code computes on int64/uint64.  TLC's integers   *)
(* are 32 bits wide, so a word is modelled with WordBits bits: uint64 is   *)
(* 0 .. 2^WordBits - 1 and int64 is -2^(WordBits-1) .. 2^(WordBits-1) - 1, *)
(* with the same wrap-around, truncation and saturation rules.  To keep    *)
(* the genesis quantities in the same relation to the word as in the       *)
(* program (pool and pool^2 far below the top of the range), the genesis   *)
(* gas quantities are divided by GasScale and the wei quantities by        *)
(* WeiScale.  Every other constant is the program's.                       *)
(***************************************************************************)
EXTENDS Integers, Sequences, FiniteSets, TLC

\* ------------------------------------------------------------ bounds
WordBits == 29
GasScale == 27777
WeiScale == 100000
MaxSteps == 3

\* ------------------------------------------------------------ machine words
UintRange == 2 ^ WordBits
MaxUint64 == UintRange - 1
MaxInt64 == 2 ^ (WordBits - 1) - 1
MinInt64 == 0 - 2 ^ (WordBits - 1)
HalfWord == 2 ^ 15

\* Go conversion uint64(x) of a signed word, and reduction of any result
\* of unsigned arithmetic to the word.
ToUint64(x) == x % UintRange

\* Go conversion int64(x) of an unsigned word, and reduction of any result
\* of signed arithmetic to the word (two's complement).
ToInt64(x) == LET u == x % UintRange IN IF u > MaxInt64 THEN u - UintRange ELSE u

\* Go's a * b on uint64: the low word of the product.  The product is
\* formed from 15-bit halves so that no intermediate exceeds TLC's range.
UMul(a, b) ==
  LET a1 == a \div HalfWord
      a0 == a % HalfWord
      b1 == b \div HalfWord
      b0 == b % HalfWord
      cross == (a1 * b0 + a0 * b1) % (UintRange \div HalfWord)
  IN  (cross * HalfWord + a0 * b0) % UintRange

\* Go's a * b on int64.
IMul(a, b) == ToInt64(UMul(ToUint64(a), ToUint64(b)))

\* Go's a / b on uint64, b # 0.
UDiv(a, b) == a \div b

Abs(x) == IF x < 0 THEN 0 - x ELSE x

\* Go's a / b on int64, b # 0: truncated toward zero; MinInt64 / -1 wraps.
IDiv(a, b) ==
  LET q == Abs(a) \div Abs(b)
  IN  ToInt64(IF (a < 0) = (b < 0) THEN q ELSE 0 - q)

MinInt(a, b) == IF a < b THEN a ELSE b

\* floor(a * b / c) and (a * b) mod c on unbounded naturals, c > 0: used
\* where the program computes on math/big values.  A product below 2^31 is
\* taken as it is, a larger one by doubling.
RECURSIVE BigMulDivMod(_, _, _)
BigMulDivMod(a, b, c) ==
  IF b = 0 THEN [q |-> 0, r |-> 0]
  ELSE IF a <= 2147483647 \div b THEN [q |-> (a * b) \div c, r |-> (a * b) % c]
  ELSE LET h == BigMulDivMod(a, b \div 2, c)
           d == 2 * h.r
           q1 == 2 * h.q + (IF d >= c THEN 1 ELSE 0)
           r1 == IF d >= c THEN d - c ELSE d
           t == r1 + (IF b % 2 = 1 THEN a % c ELSE 0)
           qa == IF b % 2 = 1 THEN a \div c ELSE 0
       IN  [q |-> q1 + qa + (IF t >= c THEN 1 ELSE 0),
            r |-> IF t >= c THEN t - c ELSE t]

\* ------------------------------------------------------------ arbmath
\* (package util/arbmath is not among the sources; these follow section 4.A
\* of the specification and the way the callers use them.)
OneInBips == 10000

PercentToBips(percentage) == percentage * 100

SaturatingAdd(augend, addend) ==
  LET sum == ToInt64(augend + addend)
  IN  IF addend > 0 /\ sum < augend THEN MaxInt64
      ELSE IF addend < 0 /\ sum > augend THEN MinInt64
      ELSE sum

SaturatingSub(minuend, subtrahend) ==
  LET d == minuend - subtrahend
  IN  IF d > MaxInt64 THEN MaxInt64 ELSE IF d < MinInt64 THEN MinInt64 ELSE d

SaturatingUCast(value) == IF value < 0 THEN 0 ELSE value

SaturatingCast(value) == IF value > MaxInt64 THEN MaxInt64 ELSE value

SaturatingUAdd(augend, addend) ==
  LET sum == ToUint64(augend + addend)
  IN  IF sum < augend \/ sum < addend THEN MaxUint64 ELSE sum

SaturatingUMul(multiplicand, multiplier) ==
  LET product == UMul(multiplicand, multiplier)
  IN  IF multiplier # 0 /\ UDiv(product, multiplier) # multiplicand
      THEN MaxUint64 ELSE product

SaturatingMul(multiplicand, multiplier) ==
  LET product == IMul(multiplicand, multiplier)
  IN  IF multiplier # 0 /\ IDiv(product, multiplier) # multiplicand
      THEN IF (multiplicand > 0) = (multiplier > 0) THEN MaxInt64 ELSE MinInt64
      ELSE product

NaturalToBips(natural) == SaturatingMul(natural, OneInBips)

\* value * bips / 10000 on math/big integers, rounded down (bips >= 0).
BigMulByBips(value, bips) == BigMulDivMod(value, bips, OneInBips).q

BigMulByInt(multiplicand, multiplier) == multiplicand * multiplier

IntMulByBips(value, bips) == IDiv(IMul(value, bips), OneInBips)

\* Horner form of 1 + x + x^2/2 + x^3/6 + x^4/24 in basis points; for a
\* negative argument the reciprocal.
ApproxExpBasisPoints(value) ==
  LET negative == value < 0
      input == IF negative THEN ToInt64(0 - value) ELSE value
      x == ToUint64(input)
      bips == OneInBips
      res1 == ToUint64(bips + UDiv(x, 4))
      res2 == ToUint64(bips + UDiv(SaturatingUMul(res1, x), 3 * bips))
      res3 == ToUint64(bips + UDiv(SaturatingUMul(res2, x), 2 * bips))
      res4 == ToUint64(bips + UDiv(SaturatingUMul(res3, x), 1 * bips))
  IN  IF negative THEN SaturatingCast(UDiv(bips * bips, res4))
      ELSE SaturatingCast(res4)

\* ------------------------------------------------------------ math/big
\* Natural numbers of any size, as the sequence of their 15-bit limbs,
\* lowest first: a 64-bit mantissa and its products do not fit TLC's
\* integers.  (Go's math/big is not among the sources.)
LimbBits == 15

BigOfWord(x) ==
  <<x % HalfWord, (x \div HalfWord) % HalfWord, x \div (HalfWord * HalfWord)>>

RECURSIVE BigTrim(_)
BigTrim(a) ==
  IF Len(a) > 0 /\ a[Len(a)] = 0 THEN BigTrim(SubSeq(a, 1, Len(a) - 1)) ELSE a

\* The number of bits of one limb x > 0.
RECURSIVE LimbBitLen(_)
LimbBitLen(x) == IF x < 2 THEN 1 ELSE IF x < 256 THEN 1 + LimbBitLen(x \div 2)
                 ELSE 8 + LimbBitLen(x \div 256)

\* The number of bits of a, 0 for zero.
BigBitLen(a) ==
  LET t == BigTrim(a)
  IN  IF Len(t) = 0 THEN 0
      ELSE (Len(t) - 1) * LimbBits + LimbBitLen(t[Len(t)])

RECURSIVE BigAddFrom(_, _, _, _)
BigAddFrom(a, b, i, carry) ==
  IF i > Len(a) /\ i > Len(b) THEN (IF carry = 0 THEN << >> ELSE <<carry>>)
  ELSE LET s == (IF i <= Len(a) THEN a[i] ELSE 0)
                  + (IF i <= Len(b) THEN b[i] ELSE 0) + carry
       IN  <<s % HalfWord>> \o BigAddFrom(a, b, i + 1, s \div HalfWord)

BigAdd(a, b) == BigAddFrom(a, b, 1, 0)

RECURSIVE BigMulLimbFrom(_, _, _, _)
BigMulLimbFrom(a, x, i, carry) ==
  IF i > Len(a) THEN (IF carry = 0 THEN << >> ELSE <<carry>>)
  ELSE LET p == a[i] * x + carry
       IN  <<p % HalfWord>> \o BigMulLimbFrom(a, x, i + 1, p \div HalfWord)

\* a * x for one limb x.
BigMulLimb(a, x) == BigMulLimbFrom(a, x, 1, 0)

RECURSIVE BigMul(_, _)
BigMul(a, b) ==
  IF Len(b) = 0 THEN << >>
  ELSE IF Len(b) = 1 THEN BigMulLimb(a, b[1])
  ELSE BigAdd(BigMulLimb(a, b[1]), <<0>> \o BigMul(a, Tail(b)))

\* a * 2^k
BigShl(a, k) ==
  [i \in 1 .. k \div LimbBits |-> 0] \o BigMulLimb(a, 2 ^ (k % LimbBits))

\* floor(a / 2^k)
BigShr(a, k) ==
  LET b == SubSeq(a, k \div LimbBits + 1, Len(a))
      r == 2 ^ (k % LimbBits)
  IN  [i \in 1 .. Len(b) |->
         b[i] \div r + ((IF i < Len(b) THEN b[i + 1] ELSE 0) % r) * (HalfWord \div r)]

\* Bit i of a, bit 0 the lowest.
BigBit(a, i) ==
  IF i \div LimbBits + 1 > Len(a) THEN 0
  ELSE (a[i \div LimbBits + 1] \div 2 ^ (i % LimbBits)) % 2

\* The k lowest bits of a are zero.
BigLowZero(a, k) ==
  /\ \A j \in 1 .. k \div LimbBits : j > Len(a) \/ a[j] = 0
  /\ \/ k \div LimbBits + 1 > Len(a)
     \/ a[k \div LimbBits + 1] % 2 ^ (k % LimbBits) = 0

\* The value of a as a uint64, MaxUint64 when it does not fit.
BigToUint64(a) ==
  LET t == BigTrim(a)
      limb(i) == IF i <= Len(t) THEN t[i] ELSE 0
  IN  IF BigBitLen(t) > WordBits THEN MaxUint64
      ELSE limb(1) + HalfWord * limb(2)

\* A big.Float: mant * 2^exp with a mantissa of FloatPrec bits, the
\* precision a big.Float takes from SetUint64; mant = << >> is zero.
FloatPrec == 64

\* a + 1
BigInc(a) ==
  IF Len(a) > 0 /\ a[1] < HalfWord - 1 THEN [a EXCEPT ![1] = a[1] + 1]
  ELSE BigAdd(a, <<1>>)

\* (n + f) * 2^e rounded to FloatPrec bits, to nearest and to even on a tie
\* (big.ToNearestEven, the rounding mode of a new big.Float), where f < 1 is
\* a fraction of which only f = 0 or f > 0 (sticky) is known.
BigFloatRoundSticky(n, e, sticky) ==
  LET bits == BigBitLen(n)
      drop == bits - FloatPrec
  IN  IF bits = 0 THEN [mant |-> << >>, exp |-> 0]
      ELSE IF drop <= 0
      THEN [mant |-> IF drop = 0 THEN BigTrim(n) ELSE BigTrim(BigShl(n, 0 - drop)),
            exp |-> e + drop]
      ELSE LET m == BigShr(n, drop)
               up == /\ BigBit(n, drop - 1) = 1
                     /\ (sticky \/ ~BigLowZero(n, drop - 1) \/ BigBit(n, drop) = 1)
               m1 == IF up THEN BigInc(m) ELSE m
           IN  IF up /\ BigBitLen(m1) > FloatPrec
               THEN [mant |-> BigTrim(BigShr(m1, 1)), exp |-> e + drop + 1]
               ELSE [mant |-> BigTrim(m1), exp |-> e + drop]

BigFloatRound(n, e) == BigFloatRoundSticky(n, e, FALSE)

\* The limbs of the quotient that long division of r * 2^(15 k) by d
\* yields, and the remainder left.
RECURSIVE QuoLimbs(_, _, _)
QuoLimbs(r, d, k) ==
  IF k = 0 THEN [limbs |-> << >>, r |-> r]
  ELSE LET t == BigMulDivMod(r, HalfWord, d)
           rest == QuoLimbs(t.r, d, k - 1)
       IN  [limbs |-> rest.limbs \o <<t.q>>, r |-> rest.r]

\* Limbs of the fraction taken before rounding: more than FloatPrec bits
\* of every quotient of two words.
QuoFraction == 7

\* ------------------------------------------------------------ arbmath, ratios
\* The big.Float of numerator / denominator (denominator # 0), held by the
\* two operands of the quotient; BigFloatQuo is its value.
UfracToBigFloat(numerator, denominator) == [num |-> numerator, den |-> denominator]

\* new(big.Float).Quo(SetUint64(numerator), SetUint64(denominator)): the
\* correctly rounded quotient.
BigFloatQuo(numerator, denominator) ==
  IF numerator = 0 THEN [mant |-> << >>, exp |-> 0]
  ELSE LET f == QuoLimbs(numerator % denominator, denominator, QuoFraction)
           q == f.limbs \o BigOfWord(numerator \div denominator)
       IN  BigFloatRoundSticky(q, 0 - QuoFraction * LimbBits, f.r # 0)

\* new(big.Float).Mul(multiplicand, SetUint64(multiplier)), correctly
\* rounded.
BigFloatMulByUint(multiplicand, multiplier) ==
  LET x == BigFloatQuo(multiplicand.num, multiplicand.den)
  IN  BigFloatRound(BigMul(x.mant, BigTrim(BigOfWord(multiplier))), x.exp)

\* new(big.Float).Add(augend, addend), correctly rounded.
BigAddFloat(augend, addend) ==
  IF Len(augend.mant) = 0 THEN addend
  ELSE IF Len(addend.mant) = 0 THEN augend
  ELSE LET e == IF augend.exp < addend.exp THEN augend.exp ELSE addend.exp
           shl(x) == IF x.exp = e THEN x.mant ELSE BigShl(x.mant, x.exp - e)
       IN  BigFloatRound(BigAdd(shl(augend), shl(addend)), e)

\* (*big.Float).Uint64(): the value truncated toward zero, MaxUint64 when
\* it does not fit the word.
BigFloatUint64(x) ==
  IF Len(x.mant) = 0 THEN 0
  ELSE IF x.exp >= 0 THEN MaxUint64
  ELSE BigToUint64(BigShr(x.mant, 0 - x.exp))

\* a * wa + b * wb on the exact ratios, for operands small enough for
\* TLC's integers: its integer part, and whether a fraction is left over.
ExactWeightedSum(a, wa, b, wb) ==
  LET x == BigMulDivMod(a.num, wa, a.den)
      y == BigMulDivMod(b.num, wb, b.den)
      t == x.r * b.den + y.r * a.den
  IN  [floor |-> x.q + y.q + t \div (a.den * b.den),
       fraction |-> t % (a.den * b.den) # 0]

\* Both products and the product of the denominators are below 2^30.
SmallOperands(a, wa, b, wb) ==
  /\ a.den <= 2 ^ 30 \div b.den
  /\ wa = 0 \/ a.num \div a.den + 1 <= 2 ^ 30 \div wa
  /\ wb = 0 \/ b.num \div b.den + 1 <= 2 ^ 30 \div wb

\* BigAddFloat(BigFloatMulByUint(a, wa), BigFloatMulByUint(b, wb)).Uint64()
\* (lines 126-129).  The five roundings move the sum by less than 2^-31
\* when it is below 2^31; a sum with a fraction is at least 2^-30 away from
\* a whole number when the denominators multiply to at most 2^30, so the
\* truncated float is the integer part of the exact sum.  Every other sum,
\* a whole number among them, is taken through the floats.
WeightedSumToUint64(a, wa, b, wb) ==
  LET exact == ExactWeightedSum(a, wa, b, wb)
  IN  IF SmallOperands(a, wa, b, wb) /\ exact.fraction
      THEN IF exact.floor > MaxUint64 THEN MaxUint64 ELSE exact.floor
      ELSE BigFloatUint64(BigAddFloat(BigFloatMulByUint(a, wa),
                                      BigFloatMulByUint(b, wb)))

\* ------------------------------------------------------------ constants
GWei == 1000000000
InitialSpeedLimitPerSecond == 1000000 \div GasScale
InitialPerBlockGasLimit == (20 * 1000000) \div GasScale
InitialMinimumBaseFeeWei == (GWei \div 10) \div WeiScale
InitialBaseFeeWei == InitialMinimumBaseFeeWei
InitialGasPoolSeconds == 10 * 60
InitialRateEstimateInertia == 60
InitialPricingInertia == 102
InitialBacklogTolerance == 10
InitialGasPoolTargetBips == PercentToBips(80)
InitialGasPoolWeightBips == PercentToBips(60)
FirstExponentialPricingVersion == 4
ElasticityMultiplier == 2

\* ------------------------------------------------------------ storage
\* The persisted slots of L2PricingState.  A slot in the set `faulty` is one
\* whose backing store fails: a read of it yields the zero word and an
\* error, a write to it persists nothing and yields an error.
Slots == {"speedLimitPerSecond", "perBlockGasLimit", "baseFeeWei",
          "minBaseFeeWei", "gasBacklog", "gasPool", "gasPoolLastBlock",
          "gasPoolSeconds", "gasPoolTarget", "gasPoolWeight", "rateEstimate",
          "rateEstimateInertia", "pricingInertia", "backlogTolerance"}

Get(ps, faulty, slot) == IF slot \in faulty THEN 0 ELSE ps[slot]

Set(ps, faulty, slot, value) ==
  IF slot \in faulty THEN ps ELSE [ps EXCEPT ![slot] = value]

InitializeL2PricingState ==
  [speedLimitPerSecond |-> InitialSpeedLimitPerSecond,
   perBlockGasLimit    |-> InitialPerBlockGasLimit,
   baseFeeWei          |-> InitialBaseFeeWei,
   minBaseFeeWei       |-> InitialMinimumBaseFeeWei,
   gasBacklog          |-> 0,
   gasPool             |-> InitialGasPoolSeconds * InitialSpeedLimitPerSecond,
   gasPoolLastBlock    |-> InitialGasPoolSeconds * InitialSpeedLimitPerSecond,
   gasPoolSeconds      |-> InitialGasPoolSeconds,
   gasPoolTarget       |-> InitialGasPoolTargetBips,
   gasPoolWeight       |-> InitialGasPoolWeightBips,
   rateEstimate        |-> InitialSpeedLimitPerSecond,
   rateEstimateInertia |-> InitialRateEstimateInertia,
   pricingInertia      |-> InitialPricingInertia,
   backlogTolerance    |-> InitialBacklogTolerance]

\* gas_pool_max = speed_limit * gas_pool_seconds, as int64.
GasPoolMax(ps, faulty) ==
  SaturatingCast(UMul(Get(ps, faulty, "gasPoolSeconds"),
                      Get(ps, faulty, "speedLimitPerSecond")))

\* ------------------------------------------------------------ AddToGasPool
AddToGasPool_preExp(ps, faulty, gas) ==
  IF "gasPool" \in faulty THEN [ps |-> ps, err |-> TRUE]
  ELSE [ps  |-> Set(ps, faulty, "gasPool", SaturatingAdd(ps.gasPool, gas)),
        err |-> FALSE]

\* Mutant of PayOffBacklog: the gas is added to the backlog.
PayOffBacklog_added(backlog, gas) ==
  SaturatingUCast(SaturatingAdd(ToInt64(backlog), gas))

\* The backlog after paying off `gas` of it (lines 38-39).
PayOffBacklog(backlog, gas) ==
  SaturatingUCast(SaturatingSub(ToInt64(backlog), gas))

\* Mutant of AddToGasPool: from version 4 on the gas is also added to the
\* legacy pool.
AddToGasPool_bothModels(ps, faulty, gas, arbosVersion) ==
  IF arbosVersion < FirstExponentialPricingVersion
  THEN AddToGasPool_preExp(ps, faulty, gas)
  ELSE IF "gasBacklog" \in faulty THEN [ps |-> ps, err |-> TRUE]
  ELSE [ps  |-> Set(Set(ps, faulty, "gasBacklog", PayOffBacklog(ps.gasBacklog, gas)),
                    faulty, "gasPool", SaturatingAdd(ps.gasPool, gas)),
        err |-> FALSE]

AddToGasPool(ps, faulty, gas, arbosVersion) ==
  IF arbosVersion < FirstExponentialPricingVersion
  THEN AddToGasPool_preExp(ps, faulty, gas)
  ELSE IF "gasBacklog" \in faulty THEN [ps |-> ps, err |-> TRUE]
  ELSE [ps  |-> Set(ps, faulty, "gasBacklog", PayOffBacklog(ps.gasBacklog, gas)),
        err |-> FALSE]

\* ------------------------------------------------------------ UpdatePricingModel
\* Mutant of RateEstimateUpdate: the gas used is left out of the estimate.
RateEstimateUpdate_noBurn(rateSeconds, priorRate, gasUsed, timePassed) ==
  UDiv(SaturatingUMul(rateSeconds, priorRate), ToUint64(rateSeconds + timePassed))

\* rate' = (memory * rate + used) / (memory + passed)   (line 90)
RateEstimateUpdate(rateSeconds, priorRate, gasUsed, timePassed) ==
  UDiv(SaturatingUAdd(SaturatingUMul(rateSeconds, priorRate), gasUsed),
       ToUint64(rateSeconds + timePassed))

\* The average fullness over the interval and the refilled pool
\* (lines 103-113); gasPool is already capped at poolMax.
PoolRefill(gasPool, poolMax, speedLimit, timePassed) ==
  LET timeToFull == IDiv(ToInt64(poolMax - gasPool), ToInt64(speedLimit))
  IN  IF timePassed > ToUint64(timeToFull)
      THEN LET spaceBefore == ToUint64(poolMax - gasPool)
           IN  [averagePool |->
                  ToUint64(ToUint64(poolMax)
                           - UDiv(UMul(spaceBefore, spaceBefore),
                                  SaturatingUMul(UMul(2, speedLimit), timePassed))),
                newGasPool  |-> poolMax]
      ELSE [averagePool |-> ToUint64(ToUint64(gasPool)
                                     + UDiv(UMul(timePassed, speedLimit), 2)),
            newGasPool  |-> ToInt64(gasPool + ToInt64(UMul(speedLimit, timePassed)))]

\* Mutant of PoolRatio: a pool below its target counts as a pool at its
\* target, ratio = min(1, max(0, 2 - (average fullness) / (target fullness))).
PoolRatio_atMostOne(averagePool, poolTargetGas) ==
  IF averagePool < poolTargetGas THEN UfracToBigFloat(poolTargetGas, poolTargetGas)
  ELSE IF averagePool < UMul(2, poolTargetGas)
  THEN UfracToBigFloat(ToUint64(UMul(2, poolTargetGas) - averagePool), poolTargetGas)
  ELSE UfracToBigFloat(0, 1)

\* ratio = max(0, 2 - (average fullness) / (target fullness))  (lines 116-119)
PoolRatio(averagePool, poolTargetGas) ==
  IF averagePool < UMul(2, poolTargetGas)
  THEN UfracToBigFloat(ToUint64(UMul(2, poolTargetGas) - averagePool), poolTargetGas)
  ELSE UfracToBigFloat(0, 1)

\* average = weight * pool + (1 - weight) * rate, in basis points, as the
\* signed word the code converts the sum to  (lines 124-129)
AverageOfRatiosUnbounded(poolRatio, rateRatio, poolWeight) ==
  LET averageOfRatiosRaw ==
        WeightedSumToUint64(poolRatio, ToUint64(poolWeight),
                            rateRatio, ToUint64(OneInBips - poolWeight))
  IN  ToInt64(averageOfRatiosRaw)

\* Mutant of AverageOfRatios: the 200% cap is applied at every version.
AverageOfRatios_capAlways(averageOfRatiosUnbounded, arbosVersion) ==
  IF averageOfRatiosUnbounded > PercentToBips(200)
  THEN PercentToBips(200) ELSE averageOfRatiosUnbounded

\* Mutant of AverageOfRatios: the average is capped at 100% at every version.
AverageOfRatios_capped(averageOfRatiosUnbounded, arbosVersion) ==
  IF averageOfRatiosUnbounded > PercentToBips(100)
  THEN PercentToBips(100) ELSE averageOfRatiosUnbounded

\* The average used in the exponent: capped at 200% before version 3
\* (lines 130-132)
AverageOfRatios(averageOfRatiosUnbounded, arbosVersion) ==
  IF arbosVersion < 3 /\ averageOfRatiosUnbounded > PercentToBips(200)
  THEN PercentToBips(200) ELSE averageOfRatiosUnbounded

\* exp = (average - 100%) * time_passed / 120  (line 139)
StepExponent(averageOfRatios, timePassed) ==
  IDiv(IMul(ToInt64(averageOfRatios - OneInBips), ToInt64(timePassed)), 120)

\* price' = price * exp(seconds at intensity) / 2 mins  (lines 139-140)
SteppedPrice(l2BaseFee, averageOfRatios, timePassed) ==
  BigMulByBips(l2BaseFee,
               ApproxExpBasisPoints(StepExponent(averageOfRatios, timePassed)))

\* Mutant of BoundPrice: the cap is applied first, the floor last.
BoundPrice_floorLast(price, minPrice, maxPrice) ==
  LET capped == IF price > maxPrice THEN maxPrice ELSE price
  IN  IF capped < minPrice THEN minPrice ELSE capped

\* The two bounds on the new price, in the order the code applies them
\* (lines 155-161).
BoundPrice(price, minPrice, maxPrice) ==
  LET floored == IF price < minPrice THEN minPrice ELSE price
  IN  IF floored > maxPrice THEN maxPrice ELSE floored

\* The locals of UpdatePricingModel_preExp up to the two ratios
\* (lines 82-123).
PreExpRatios(ps, faulty, timePassed) ==
  LET poolMax == GasPoolMax(ps, faulty)
      gasPool == MinInt(Get(ps, faulty, "gasPool"), poolMax)
      gasPoolLastBlock == MinInt(Get(ps, faulty, "gasPoolLastBlock"), poolMax)
      gasUsed == ToUint64(gasPoolLastBlock - gasPool)
      rate == RateEstimateUpdate(Get(ps, faulty, "rateEstimateInertia"),
                                 Get(ps, faulty, "rateEstimate"), gasUsed, timePassed)
      speedLimit == Get(ps, faulty, "speedLimitPerSecond")
      pool == PoolRefill(gasPool, poolMax, speedLimit, timePassed)
      poolTargetGas == ToUint64(IntMulByBips(poolMax, Get(ps, faulty, "gasPoolTarget")))
  IN  [poolMax |-> poolMax, gasPool |-> gasPool, gasUsed |-> gasUsed, rate |-> rate,
       speedLimit |-> speedLimit,
       rateRatio |-> UfracToBigFloat(rate, speedLimit),
       averagePool |-> pool.averagePool, newGasPool |-> pool.newGasPool,
       poolTargetGas |-> poolTargetGas,
       poolRatio |-> PoolRatio(pool.averagePool, poolTargetGas),
       poolWeight |-> Get(ps, faulty, "gasPoolWeight"),
       minPrice |-> Get(ps, faulty, "minBaseFeeWei")]

\* The locals from the average of ratios on (lines 130-142), r being the
\* locals before it.
PreExpPrices(r, averageOfRatiosUnbounded, l2BaseFee, timePassed, arbosVersion) ==
  LET averageOfRatios == AverageOfRatios(averageOfRatiosUnbounded, arbosVersion)
  IN  [poolMax |-> r.poolMax, gasPool |-> r.gasPool, gasUsed |-> r.gasUsed,
       rate |-> r.rate, speedLimit |-> r.speedLimit,
       averagePool |-> r.averagePool, newGasPool |-> r.newGasPool,
       poolTargetGas |-> r.poolTargetGas, poolRatio |-> r.poolRatio,
       rateRatio |-> r.rateRatio,
       averageOfRatiosUnbounded |-> averageOfRatiosUnbounded,
       averageOfRatios |-> averageOfRatios,
       exp      |-> StepExponent(averageOfRatios, timePassed),
       price    |-> SteppedPrice(l2BaseFee, averageOfRatios, timePassed),
       maxPrice |-> BigMulByInt(l2BaseFee, ElasticityMultiplier),
       minPrice |-> r.minPrice]

\* The locals from the weighted average on (lines 124-142).
PreExpAverage(r, l2BaseFee, timePassed, arbosVersion) ==
  PreExpPrices(r, AverageOfRatiosUnbounded(r.poolRatio, r.rateRatio, r.poolWeight),
               l2BaseFee, timePassed, arbosVersion)

\* Every local value of UpdatePricingModel_preExp (lines 82-142).
PreExpLocals(ps, faulty, l2BaseFee, timePassed, arbosVersion) ==
  PreExpAverage(PreExpRatios(ps, faulty, timePassed), l2BaseFee, timePassed,
                arbosVersion)

\* The five lines the debug printer `p` emits, each with its values in the
\* order of the call; nothing is emitted unless the debug flag is set
\* (lines 144-153).
DebugOutput(ps, faulty, l2BaseFee, timePassed, arbosVersion, debug) ==
  IF debug /\ arbosVersion < FirstExponentialPricingVersion
  THEN LET l == PreExpLocals(ps, faulty, l2BaseFee, timePassed, arbosVersion)
       IN  << <<"used", l.gasUsed, timePassed, l.rate, l.speedLimit, l.rateRatio>>,
              <<"pool", l.gasPool, l.poolMax, l.averagePool, l.newGasPool, l.poolRatio>>,
              <<"ratio", l.poolRatio, l.rateRatio, l.averageOfRatiosUnbounded>>,
              <<"exp()", l.exp, ApproxExpBasisPoints(l.exp)>>,
              <<"price", l2BaseFee, l.price, l.minPrice, l.maxPrice>> >>
  ELSE << >>

\* The four slots the call writes from its locals l (lines 91, 155-164).
StoreLocals(ps, faulty, l) ==
  LET ps1 == Set(ps, faulty, "rateEstimate", l.rate)
      ps2 == Set(ps1, faulty, "baseFeeWei", BoundPrice(l.price, l.minPrice, l.maxPrice))
      ps3 == Set(ps2, faulty, "gasPool", l.newGasPool)
  IN  Set(ps3, faulty, "gasPoolLastBlock", l.newGasPool)

\* Mutant of UpdatePricingModel_preExp: a debug run returns after printing
\* and stores only the rate estimate.
UpdatePricingModel_preExp_debugReturns(ps, faulty, l2BaseFee, timePassed, arbosVersion, debug) ==
  LET l == PreExpLocals(ps, faulty, l2BaseFee, timePassed, arbosVersion)
      ps1 == Set(ps, faulty, "rateEstimate", l.rate)
      ps2 == Set(ps1, faulty, "baseFeeWei", BoundPrice(l.price, l.minPrice, l.maxPrice))
      ps3 == Set(ps2, faulty, "gasPool", l.newGasPool)
  IN  IF debug THEN ps1 ELSE Set(ps3, faulty, "gasPoolLastBlock", l.newGasPool)

\* Mutant of UpdatePricingModel_preExp: the last-block snapshot is not
\* written.
UpdatePricingModel_preExp_noSnapshot(ps, faulty, l2BaseFee, timePassed, arbosVersion, debug) ==
  LET l == PreExpLocals(ps, faulty, l2BaseFee, timePassed, arbosVersion)
      ps1 == Set(ps, faulty, "rateEstimate", l.rate)
      ps2 == Set(ps1, faulty, "baseFeeWei", BoundPrice(l.price, l.minPrice, l.maxPrice))
  IN  Set(ps2, faulty, "gasPool", l.newGasPool)

\* The storage after the call (lines 91, 162-164).  The debug flag only
\* feeds the printer and reaches no stored value.
UpdatePricingModel_preExp(ps, faulty, l2BaseFee, timePassed, arbosVersion, debug) ==
  StoreLocals(ps, faulty,
              PreExpLocals(ps, faulty, l2BaseFee, timePassed, arbosVersion))

\* Mutant of ExpBaseFee: the excess is scaled to basis points with a
\* wrapping multiplication.
ExpBaseFee_wrapping(backlog, tolerance, speedLimit, inertia, minBaseFee) ==
  IF backlog > UMul(tolerance, speedLimit)
  THEN LET excess == ToInt64(backlog - UMul(tolerance, speedLimit))
           exponentBips == IDiv(IMul(excess, OneInBips),
                                ToInt64(UMul(inertia, speedLimit)))
       IN  BigMulByBips(minBaseFee, ApproxExpBasisPoints(exponentBips))
  ELSE minBaseFee

\* The base fee of the exponential algorithm (lines 66-71).
ExpBaseFee(backlog, tolerance, speedLimit, inertia, minBaseFee) ==
  IF backlog > UMul(tolerance, speedLimit)
  THEN LET excess == ToInt64(backlog - UMul(tolerance, speedLimit))
           exponentBips == IDiv(NaturalToBips(excess),
                                ToInt64(UMul(inertia, speedLimit)))
       IN  BigMulByBips(minBaseFee, ApproxExpBasisPoints(exponentBips))
  ELSE minBaseFee

\* Mutant of UpdatePricingModel: the exponential fee is capped at
\* ElasticityMultiplier times the fee handed in, as the earlier algorithm does.
UpdatePricingModel_expCapped(ps, faulty, l2BaseFee, timePassed, arbosVersion, debug) ==
  IF arbosVersion < FirstExponentialPricingVersion
  THEN UpdatePricingModel_preExp(ps, faulty, l2BaseFee, timePassed, arbosVersion, debug)
  ELSE LET speedLimit == Get(ps, faulty, "speedLimitPerSecond")
           ps1 == AddToGasPool(ps, faulty, ToInt64(UMul(timePassed, speedLimit)),
                               arbosVersion).ps
           baseFee == ExpBaseFee(Get(ps1, faulty, "gasBacklog"),
                                 Get(ps1, faulty, "backlogTolerance"), speedLimit,
                                 Get(ps1, faulty, "pricingInertia"),
                                 Get(ps1, faulty, "minBaseFeeWei"))
           maxPrice == BigMulByInt(l2BaseFee, ElasticityMultiplier)
       IN  Set(ps1, faulty, "baseFeeWei",
               IF baseFee > maxPrice THEN maxPrice ELSE baseFee)

\* The storage after the call; the call has no result and no error.
UpdatePricingModel(ps, faulty, l2BaseFee, timePassed, arbosVersion, debug) ==
  IF arbosVersion < FirstExponentialPricingVersion
  THEN UpdatePricingModel_preExp(ps, faulty, l2BaseFee, timePassed, arbosVersion, debug)
  ELSE LET speedLimit == Get(ps, faulty, "speedLimitPerSecond")
           ps1 == AddToGasPool(ps, faulty, ToInt64(UMul(timePassed, speedLimit)),
                               arbosVersion).ps
           baseFee == ExpBaseFee(Get(ps1, faulty, "gasBacklog"),
                                 Get(ps1, faulty, "backlogTolerance"), speedLimit,
                                 Get(ps1, faulty, "pricingInertia"),
                                 Get(ps1, faulty, "minBaseFeeWei"))
       IN  Set(ps1, faulty, "baseFeeWei", baseFee)

\* ------------------------------------------------------------ run-time panics
\* An integer division whose divisor is zero panics and the call never
\* returns.  The first division of the pre-exponential update (line 90)
\* comes before any write.
FaultsAtRate(ps, faulty, timePassed) ==
  ToUint64(Get(ps, faulty, "rateEstimateInertia") + timePassed) = 0

\* The divisions after the rate estimate is stored: by the speed limit
\* (lines 97, 103), by 2 * speedLimit * timePassed when the pool fills
\* (line 108), by the pool target when the pool is below twice of it
\* (line 118).
FaultsAfterRate(ps, faulty, timePassed) ==
  LET poolMax == GasPoolMax(ps, faulty)
      gasPool == MinInt(Get(ps, faulty, "gasPool"), poolMax)
      speedLimit == Get(ps, faulty, "speedLimitPerSecond")
      poolTargetGas == ToUint64(IntMulByBips(poolMax, Get(ps, faulty, "gasPoolTarget")))
  IN  \/ speedLimit = 0
      \/ /\ timePassed > ToUint64(IDiv(ToInt64(poolMax - gasPool), ToInt64(speedLimit)))
         /\ SaturatingUMul(UMul(2, speedLimit), timePassed) = 0
      \/ /\ poolTargetGas = 0
         /\ PoolRefill(gasPool, poolMax, speedLimit, timePassed).averagePool
              < UMul(2, poolTargetGas)

\* The division of the exponential update, by inertia * speedLimit (line 69).
FaultsAtExponent(ps, faulty, timePassed, arbosVersion) ==
  LET speedLimit == Get(ps, faulty, "speedLimitPerSecond")
      ps1 == AddToGasPool(ps, faulty, ToInt64(UMul(timePassed, speedLimit)),
                          arbosVersion).ps
  IN  /\ Get(ps1, faulty, "gasBacklog")
           > UMul(Get(ps1, faulty, "backlogTolerance"), speedLimit)
      /\ ToInt64(UMul(Get(ps1, faulty, "pricingInertia"), speedLimit)) = 0

\* The call divides by zero.
UpdateFaults(ps, faulty, timePassed, arbosVersion) ==
  IF arbosVersion < FirstExponentialPricingVersion
  THEN FaultsAtRate(ps, faulty, timePassed) \/ FaultsAfterRate(ps, faulty, timePassed)
  ELSE FaultsAtExponent(ps, faulty, timePassed, arbosVersion)

\* What a call that divides by zero has written when it panics.
StorageAtFault(ps, faulty, timePassed, arbosVersion) ==
  IF arbosVersion >= FirstExponentialPricingVersion
  THEN AddToGasPool(ps, faulty,
                    ToInt64(UMul(timePassed, Get(ps, faulty, "speedLimitPerSecond"))),
                    arbosVersion).ps
  ELSE IF FaultsAtRate(ps, faulty, timePassed) THEN ps
  ELSE LET poolMax == GasPoolMax(ps, faulty)
           gasPool == MinInt(Get(ps, faulty, "gasPool"), poolMax)
           gasPoolLastBlock == MinInt(Get(ps, faulty, "gasPoolLastBlock"), poolMax)
       IN  Set(ps, faulty, "rateEstimate",
               RateEstimateUpdate(Get(ps, faulty, "rateEstimateInertia"),
                                  Get(ps, faulty, "rateEstimate"),
                                  ToUint64(gasPoolLastBlock - gasPool), timePassed))

\* ------------------------------------------------------------ PerBlockGasLimit
\* Mutant of PerBlockGasLimit: the test for a negative pool is missing.
PerBlockGasLimit_noSignTest(ps, faulty, arbosVersion) ==
  IF arbosVersion >= FirstExponentialPricingVersion
  THEN [value |-> Get(ps, faulty, "perBlockGasLimit"),
        err   |-> "perBlockGasLimit" \in faulty]
  ELSE LET pool == Get(ps, faulty, "gasPool")
           maxLimit == Get(ps, faulty, "perBlockGasLimit")
           err == "perBlockGasLimit" \in faulty
       IN  IF err THEN [value |-> 0, err |-> err]
           ELSE IF ToUint64(pool) > maxLimit THEN [value |-> maxLimit, err |-> FALSE]
           ELSE [value |-> ToUint64(pool), err |-> FALSE]

PerBlockGasLimit(ps, faulty, arbosVersion) ==
  IF arbosVersion >= FirstExponentialPricingVersion
  THEN [value |-> Get(ps, faulty, "perBlockGasLimit"),
        err   |-> "perBlockGasLimit" \in faulty]
  ELSE LET pool == Get(ps, faulty, "gasPool")
           maxLimit == Get(ps, faulty, "perBlockGasLimit")
           err == "perBlockGasLimit" \in faulty
       IN  IF pool < 0 \/ err THEN [value |-> 0, err |-> err]
           ELSE IF ToUint64(pool) > maxLimit THEN [value |-> maxLimit, err |-> FALSE]
           ELSE [value |-> ToUint64(pool), err |-> FALSE]

\* ------------------------------------------------------------ scanAndCopyBlocks
\* Blocks the reader delivers at most.
MaxBlocks == 3

\* common.Hash{}
ZeroHash == 0

Hashes == ZeroHash .. MaxBlocks

BlockNumbers == 0 .. MaxBlocks

\* What one round of the loop meets: the header number, parent hash and
\* hash of the block GetNext delivers, whether GetNext fails instead, and
\* whether the writer fails on the block.
StoredBlocks ==
  [number : BlockNumbers, parentHash : Hashes, hash : Hashes,
   readErr : BOOLEAN, writeErr : BOOLEAN]

\* The locals at entry, nothing read and nothing written.
NoScan == [input |-> << >>, written |-> << >>, blockNum |-> 0,
           lastHash |-> ZeroHash, returned |-> FALSE, err |-> "none"]

\* Mutant of scanBlock: the block is written before its parent hash is
\* compared.
scanBlock_writeFirst(s, block) ==
  LET read == [s EXCEPT !.input = Append(@, block)]
      fail(e) == [read EXCEPT !.returned = TRUE, !.err = e]
  IN  IF block.readErr THEN fail("read")
      ELSE IF block.number # s.blockNum THEN fail("number")
      ELSE IF block.writeErr THEN fail("write")
      ELSE IF block.parentHash # s.lastHash
      THEN [fail("parent") EXCEPT !.written = Append(@, block)]
      ELSE [read EXCEPT !.written = Append(@, block),
                        !.lastHash = block.hash, !.blockNum = @ + 1]

\* One round of the loop on the block the reader delivers (lines 60-76).
scanBlock(s, block) ==
  LET read == [s EXCEPT !.input = Append(@, block)]
      fail(e) == [read EXCEPT !.returned = TRUE, !.err = e]
  IN  IF block.readErr THEN fail("read")
      ELSE IF block.number # s.blockNum THEN fail("number")
      ELSE IF block.parentHash # s.lastHash THEN fail("parent")
      ELSE IF block.writeErr THEN fail("write")
      ELSE [read EXCEPT !.written = Append(@, block),
                        !.lastHash = block.hash, !.blockNum = @ + 1]

\* ------------------------------------------------------------ state machine
VARIABLES ps, arbosVersion, faulty, last, steps, scan

vars == <<ps, arbosVersion, faulty, last, steps, scan>>

\* The protocol versions exercised: the capped pre-exponential algorithm,
\* the uncapped one, and the exponential one.
Versions == {2, FirstExponentialPricingVersion - 1, FirstExponentialPricingVersion}

\* The storage is sound, or the pool/backlog slots fail, or the block-limit
\* slot fails.
FaultySets == {{}, {"gasPool", "gasBacklog"}, {"perBlockGasLimit"}}

\* A time_passed whose product with the speed limit has the top bit set.
TimeWrap == (3 * 2 ^ (WordBits - 2)) \div InitialSpeedLimitPerSecond + 1

GasInputs == {0 - InitialGasPoolSeconds * InitialSpeedLimitPerSecond,
              0 - 8 * InitialSpeedLimitPerSecond,
              InitialSpeedLimitPerSecond,
              MinInt64 + 1,
              MaxInt64}

\* A time_passed that added to the rate estimate inertia wraps to zero.
TimeZeroSum == UintRange - InitialRateEstimateInertia

TimeInputs == {0, 1, 3, InitialGasPoolSeconds + 100, TimeWrap}

\* The base fee handed to an update: the stored one (what the block
\* executor passes), zero, or one below half the minimum.
FeeInputs == {ps.baseFeeWei, 0, 3 * (ps.minBaseFeeWei \div 10)}

NoCall == [op |-> "none", gas |-> 0, l2BaseFee |-> 0, timePassed |-> 0,
           debug |-> FALSE, pre |-> InitializeL2PricingState, err |-> FALSE,
           panic |-> FALSE, value |-> 0]

\* The arguments of an update: every fee with every time without debug
\* output, the stored fee with the wrapping time, and the stored fee with
\* debug output after no time and after one second.
UpdateInputs ==
  ({<<fee, timePassed, FALSE>> : fee \in FeeInputs, timePassed \in TimeInputs})
  \cup {<<ps.baseFeeWei, TimeZeroSum, FALSE>>}
  \cup {<<ps.baseFeeWei, timePassed, TRUE>> : timePassed \in {0, 1}}

Init ==
  /\ ps = InitializeL2PricingState
  /\ arbosVersion \in Versions
  /\ faulty \in FaultySets
  /\ last = NoCall
  /\ steps = 0
  /\ scan = NoScan

CallAddToGasPool ==
  /\ steps < MaxSteps
  /\ \E gas \in GasInputs :
       LET r == AddToGasPool(ps, faulty, gas, arbosVersion)
       IN  /\ ps' = r.ps
           /\ last' = [NoCall EXCEPT !.op = "AddToGasPool", !.gas = gas,
                                     !.pre = ps, !.err = r.err]
  /\ steps' = steps + 1
  /\ UNCHANGED <<arbosVersion, faulty, scan>>

CallUpdatePricingModel ==
  /\ steps < MaxSteps
  /\ \E in \in UpdateInputs :
       LET l2BaseFee == in[1]
           timePassed == in[2]
           debug == in[3]
           panic == UpdateFaults(ps, faulty, timePassed, arbosVersion)
       IN  /\ ps' = IF panic
                    THEN StorageAtFault(ps, faulty, timePassed, arbosVersion)
                    ELSE UpdatePricingModel(ps, faulty, l2BaseFee, timePassed,
                                            arbosVersion, debug)
           /\ last' = [NoCall EXCEPT !.op = "UpdatePricingModel",
                                     !.l2BaseFee = l2BaseFee,
                                     !.timePassed = timePassed, !.debug = debug,
                                     !.pre = ps, !.panic = panic]
  /\ steps' = steps + 1
  /\ UNCHANGED <<arbosVersion, faulty, scan>>

CallPerBlockGasLimit ==
  /\ steps < MaxSteps
  /\ LET r == PerBlockGasLimit(ps, faulty, arbosVersion)
     IN  last' = [NoCall EXCEPT !.op = "PerBlockGasLimit", !.pre = ps,
                               !.err = r.err, !.value = r.value]
  /\ steps' = steps + 1
  /\ UNCHANGED <<ps, arbosVersion, faulty, scan>>

Next == CallAddToGasPool \/ CallUpdatePricingModel \/ CallPerBlockGasLimit

Spec == Init /\ [][Next]_vars

TypeOK ==
  /\ DOMAIN ps = Slots
  /\ arbosVersion \in Versions
  /\ faulty \in FaultySets
  /\ steps \in 0 .. MaxSteps
  /\ ps.gasPool \in MinInt64 .. MaxInt64
  /\ ps.gasPoolLastBlock \in MinInt64 .. MaxInt64
  /\ ps.gasBacklog \in 0 .. MaxUint64
  /\ ps.rateEstimate \in 0 .. MaxUint64
  /\ ps.baseFeeWei >= 0

\* ------------------------------------------------------------ burns and refunds
\* The two calls a block makes, from the fresh pricing state: gas burnt or
\* handed back to the pool by AddToGasPool, and UpdatePricingModel at the
\* stored fee after no time or after a second.
MaxBurnSteps == 4

BurnInputs == {0 - 8 * InitialSpeedLimitPerSecond, InitialSpeedLimitPerSecond}

BurnInit ==
  /\ ps = InitializeL2PricingState
  /\ arbosVersion \in Versions
  /\ faulty = {}
  /\ last = NoCall
  /\ steps = 0
  /\ scan = NoScan

BurnAddToGasPool ==
  /\ steps < MaxBurnSteps
  /\ \E gas \in BurnInputs :
       LET r == AddToGasPool(ps, faulty, gas, arbosVersion)
       IN  /\ ps' = r.ps
           /\ last' = [NoCall EXCEPT !.op = "AddToGasPool", !.gas = gas,
                                     !.pre = ps, !.err = r.err]
  /\ steps' = steps + 1
  /\ UNCHANGED <<arbosVersion, faulty, scan>>

BurnUpdatePricingModel ==
  /\ steps < MaxBurnSteps
  /\ \E timePassed \in {0, 1} :
       LET panic == UpdateFaults(ps, faulty, timePassed, arbosVersion)
       IN  /\ ps' = IF panic
                    THEN StorageAtFault(ps, faulty, timePassed, arbosVersion)
                    ELSE UpdatePricingModel(ps, faulty, ps.baseFeeWei, timePassed,
                                            arbosVersion, FALSE)
           /\ last' = [NoCall EXCEPT !.op = "UpdatePricingModel",
                                     !.l2BaseFee = ps.baseFeeWei,
                                     !.timePassed = timePassed,
                                     !.pre = ps, !.panic = panic]
  /\ steps' = steps + 1
  /\ UNCHANGED <<arbosVersion, faulty, scan>>

BurnNext == BurnAddToGasPool \/ BurnUpdatePricingModel

SpecBurn == BurnInit /\ [][BurnNext]_vars

\* ------------------------------------------------------------ the pricing test
\* The run of versionedTestPricingModel: a fresh pricing state, then its
\* four sections in the order of the code, each set up with the setters it
\* uses and followed by its fake blocks.  `last` holds the position in the
\* test, the last block and the test's local `price`.
\* Blocks of the two speed-limit loops (`seconds < 4`).
SteadyBlocks == 4

\* Blocks after which the overshoot loop is cut off.
MaxExceedingBlocks == 20

\* The backlog the test sets before its last section, in scaled gas.
TestBacklog == 100000000 \div GasScale

\* fakeBlockUpdate: burn gasUsed, then update at the fee stored before.
fakeBlockUpdate(pricing, gasUsed, timePassed, version) ==
  LET basefee == pricing.baseFeeWei
      burnt == AddToGasPool(pricing, {}, ToInt64(0 - gasUsed), version).ps
  IN  UpdatePricingModel(burnt, {}, basefee, timePassed, version, TRUE)

\* The test's local poolTarget.
poolTarget(pricing) ==
  IDiv(IMul(ToInt64(pricing.gasPoolTarget), GasPoolMax(pricing, {})), 10000)

\* The fake blocks of a speed-limit section: `seconds` at the speed limit.
\* The loop runs seconds = 0, 1, 2, 3; the blocks are taken in any order.
SpeedLimitBlocks ==
  {<<seconds * ps.speedLimitPerSecond, seconds>> : seconds \in 0 .. 3}

TestStart == [op |-> "PricingForTest", section |-> "none", blocks |-> 0,
              price |-> InitializeL2PricingState.baseFeeWei,
              gasUsed |-> 0, timePassed |-> 0, pre |-> InitializeL2PricingState]

TestInit ==
  /\ ps = InitializeL2PricingState
  /\ arbosVersion \in Versions
  /\ faulty = {}
  /\ last = TestStart
  /\ steps = 0
  /\ scan = NoScan

\* A check made after the last fake block calls Fail, which ends the test.
TestFailed ==
  /\ last.op = "fakeBlockUpdate"
  /\ IF last.section = "full pool & speed limit"
     THEN \/ ps.baseFeeWei # ps.minBaseFeeWei
          \/ arbosVersion < 4 /\ ps.gasPool # GasPoolMax(ps, {})
     ELSE IF last.section = "pool target & speed limit"
     THEN \/ ps.baseFeeWei # ps.minBaseFeeWei
          \/ /\ arbosVersion < FirstExponentialPricingVersion
             /\ ps.gasPool # poolTarget(ps)
     ELSE IF last.section = "exceeding the speed limit"
     THEN \/ /\ arbosVersion < FirstExponentialPricingVersion
             /\ ps.gasPool < poolTarget(ps)
          \/ ps.baseFeeWei < last.price
     ELSE IF last.blocks = 1
     THEN /\ arbosVersion < FirstExponentialPricingVersion
          /\ \/ ps.baseFeeWei # last.price
             \/ ps.gasPool # 0
             \/ ps.rateEstimate # ps.speedLimitPerSecond
     ELSE ps.baseFeeWei <= last.price

\* The position at the start of a section; the local `price` stays.
Section(name) == [last EXCEPT !.op = "setup", !.section = name, !.blocks = 0,
                              !.gasUsed = 0, !.timePassed = 0, !.pre = ps]

\* "declare that we've been running at the speed limit"
EnterFullPool ==
  /\ last.op = "PricingForTest"
  /\ ps' = Set(ps, {}, "rateEstimate", ps.speedLimitPerSecond)
  /\ last' = Section("full pool & speed limit")
  /\ steps' = steps + 1
  /\ UNCHANGED <<arbosVersion, faulty, scan>>

\* "set the gas pool to the target", after the first loop
EnterPoolTarget ==
  /\ last.section = "full pool & speed limit"
  /\ last.blocks = SteadyBlocks
  /\ ~TestFailed
  /\ ps' = Set(Set(Set(ps, {}, "gasPool", poolTarget(ps)),
                   {}, "gasPoolLastBlock", poolTarget(ps)),
               {}, "rateEstimate", ps.speedLimitPerSecond)
  /\ last' = Section("pool target & speed limit")
  /\ steps' = steps + 1
  /\ UNCHANGED <<arbosVersion, faulty, scan>>

\* "fill the gas pool", after the second loop
EnterExceeding ==
  /\ last.section = "pool target & speed limit"
  /\ last.blocks = SteadyBlocks
  /\ ~TestFailed
  /\ ps' = Set(Set(ps, {}, "gasPool", GasPoolMax(ps, {})),
               {}, "gasPoolLastBlock", GasPoolMax(ps, {}))
  /\ last' = Section("exceeding the speed limit")
  /\ steps' = steps + 1
  /\ UNCHANGED <<arbosVersion, faulty, scan>>

\* "empty the pool", once the overshoot loop has ended with a higher price
EnterEmptyPool ==
  /\ last.section = "exceeding the speed limit"
  /\ last.op = "fakeBlockUpdate"
  /\ ~TestFailed
  /\ ps.baseFeeWei > last.price
  /\ LET rated == Set(ps, {}, "rateEstimate", ps.speedLimitPerSecond)
     IN  ps' = IF arbosVersion < FirstExponentialPricingVersion
               THEN Set(Set(rated, {}, "gasPool", 0), {}, "gasPoolLastBlock", 0)
               ELSE Set(rated, {}, "gasBacklog", TestBacklog)
  /\ last' = [Section("gas pool is empty") EXCEPT !.price = ps.baseFeeWei]
  /\ steps' = steps + 1
  /\ UNCHANGED <<arbosVersion, faulty, scan>>

\* The fake blocks the current section may run next, each with the value
\* the test's local `price` has after it: a speed-limit block while fewer
\* than SteadyBlocks were run; the overshoot block while the price has not
\* risen; on the empty pool a block after no time, then one after a second.
FakeBlockInputs ==
  IF TestFailed THEN {}
  ELSE IF last.section \in {"full pool & speed limit", "pool target & speed limit"}
  THEN IF last.blocks < SteadyBlocks
       THEN {<<b[1], b[2], last.price>> : b \in SpeedLimitBlocks} ELSE {}
  ELSE IF last.section = "exceeding the speed limit"
  THEN IF last.blocks < MaxExceedingBlocks
          /\ (last.blocks = 0 \/ ps.baseFeeWei = last.price)
       THEN {<<8 * ps.speedLimitPerSecond, 1, ps.baseFeeWei>>} ELSE {}
  ELSE IF last.section = "gas pool is empty"
  THEN IF last.blocks < 2 THEN {<<0, last.blocks, last.price>>} ELSE {}
  ELSE {}

\* One call of fakeBlockUpdate in the current section.
FakeBlock ==
  /\ \E b \in FakeBlockInputs :
       /\ ps' = fakeBlockUpdate(ps, b[1], b[2], arbosVersion)
       /\ last' = [last EXCEPT !.op = "fakeBlockUpdate", !.blocks = @ + 1,
                               !.price = b[3], !.gasUsed = b[1],
                               !.timePassed = b[2], !.pre = ps]
  /\ steps' = steps + 1
  /\ UNCHANGED <<arbosVersion, faulty, scan>>

TestNext ==
  EnterFullPool \/ EnterPoolTarget \/ EnterExceeding \/ EnterEmptyPool \/ FakeBlock

SpecTest == TestInit /\ [][TestNext]_vars

TestTypeOK ==
  /\ DOMAIN ps = Slots
  /\ faulty = {}
  /\ last.blocks \in 0 .. MaxExceedingBlocks
  /\ last.section \in {"none", "full pool & speed limit", "pool target & speed limit",
                        "exceeding the speed limit", "gas pool is empty"}
  /\ ps.baseFeeWei >= ps.minBaseFeeWei

\* ------------------------------------------------------------ the block copy
ScanInit ==
  /\ ps = InitializeL2PricingState
  /\ arbosVersion = FirstExponentialPricingVersion
  /\ faulty = {}
  /\ last = NoCall
  /\ steps = 0
  /\ scan = NoScan

\* reader.More() holds and the round runs on the next block.
ScanRound ==
  /\ ~scan.returned
  /\ Len(scan.input) < MaxBlocks
  /\ \E block \in StoredBlocks : scan' = scanBlock(scan, block)
  /\ UNCHANGED <<ps, arbosVersion, faulty, last, steps>>

\* reader.More() fails and the function returns without an error.
ScanReturn ==
  /\ ~scan.returned
  /\ scan' = [scan EXCEPT !.returned = TRUE]
  /\ UNCHANGED <<ps, arbosVersion, faulty, last, steps>>

ScanNext == ScanRound \/ ScanReturn

SpecScan == ScanInit /\ [][ScanNext]_vars

\* ------------------------------------------------------------ properties
\* The last call was an update that returned.
Updated == last.op = "UpdatePricingModel" /\ ~last.panic

\* The last call was an update that panicked.
Panicked == last.op = "UpdatePricingModel" /\ last.panic
Added == last.op = "AddToGasPool"
Queried == last.op = "PerBlockGasLimit"
Sound == faulty = {}
PreExp == arbosVersion < FirstExponentialPricingVersion

Clamp(x, lo, hi) == IF x < lo THEN lo ELSE IF x > hi THEN hi ELSE x

\* The slots UpdatePricingModel reads or writes at a version.
SlotsOfUpdate(version) ==
  IF version < FirstExponentialPricingVersion
  THEN {"gasPool", "gasPoolLastBlock", "gasPoolSeconds", "speedLimitPerSecond",
        "rateEstimateInertia", "rateEstimate", "gasPoolTarget", "gasPoolWeight",
        "minBaseFeeWei", "baseFeeWei"}
  ELSE {"speedLimitPerSecond", "gasBacklog", "pricingInertia", "backlogTolerance",
        "minBaseFeeWei", "baseFeeWei"}

\* The locals of the last call, when it was a pre-exponential update.
LastLocals ==
  PreExpLocals(last.pre, faulty, last.l2BaseFee, last.timePassed, arbosVersion)

\* C1 (Floor): after every UpdatePricingModel call on sound storage, at
\* either version and for every prev_base_fee and time_passed, the stored
\* base fee is at least the minimum base fee.
C1_Floor == (Updated /\ Sound) => ps.baseFeeWei >= ps.minBaseFeeWei

\* C2 (Step cap): after an UpdatePricingModel call at a version below 4 the
\* stored base fee is at most ElasticityMultiplier times the prev_base_fee
\* handed in, and the call has no error outcome.
C2_StepCap ==
  (Updated /\ PreExp) =>
    /\ ps.baseFeeWei <= ElasticityMultiplier * last.l2BaseFee
    /\ ~last.err

\* A pre-exponential update whose stepped price exceeded the cap and was
\* clamped to it.
C2_CapHit ==
  /\ Updated /\ PreExp /\ Sound
  /\ last.l2BaseFee > 0
  /\ LastLocals.price > LastLocals.maxPrice
  /\ ps.baseFeeWei = ElasticityMultiplier * last.l2BaseFee

\* C3 (Storage failures are reported): when a slot UpdatePricingModel uses
\* fails during the call, the call ends in an error and persists no base
\* fee, pool or rate estimate.
C3_ReportsStorageFailure ==
  (Updated /\ SlotsOfUpdate(arbosVersion) \cap faulty # {}) =>
    /\ last.err
    /\ ps = last.pre

\* C4 (Pool bound): after every UpdatePricingModel call at a version below
\* 4 the stored gas pool is at most gas_pool_max, whatever the pool was
\* before and whatever time_passed.
C4_PoolBound ==
  (Updated /\ PreExp /\ Sound) => ps.gasPool <= GasPoolMax(ps, faulty)

\* C5 (Backlog saturates over the unsigned range): at version >= 4
\* AddToGasPool leaves gas_backlog = backlog - gas limited to
\* [0, MaxUint64], and a negative gas never leaves a smaller backlog.
C5_SaturatingU64 ==
  (Added /\ ~PreExp /\ Sound) =>
    /\ ps.gasBacklog = Clamp(last.pre.gasBacklog - last.gas, 0, MaxUint64)
    /\ last.gas < 0 => ps.gasBacklog >= last.pre.gasBacklog

\* C6 (Dispatch of AddToGasPool): below version 4 the call changes only
\* gas_pool, to gas_pool + gas limited to the int64 range; from version 4
\* on it changes only gas_backlog, to backlog - gas limited to
\* [0, MaxInt64] (the saturating subtraction is a signed one).
C6_Dispatch ==
  (Added /\ ~last.err) =>
    IF PreExp
    THEN ps = [last.pre EXCEPT
                 !.gasPool = Clamp(last.pre.gasPool + last.gas, MinInt64, MaxInt64)]
    ELSE ps = [last.pre EXCEPT
                 !.gasBacklog = Clamp(last.pre.gasBacklog - last.gas, 0, MaxInt64)]

\* A positive gas paid off part of a larger backlog at version >= 4.
C6_Lowered ==
  /\ Added /\ ~PreExp /\ ~last.err
  /\ last.gas > 0
  /\ last.pre.gasBacklog > last.gas
  /\ ps.gasBacklog = last.pre.gasBacklog - last.gas

\* C7 (PerBlockGasLimit): on sound storage the call returns the stored
\* per_block_gas_limit from version 4 on, and below version 4 the gas pool
\* limited to [0, per_block_gas_limit]; it returns no error and leaves the
\* storage as it was.
C7_PerBlockGasLimit ==
  (Queried /\ Sound) =>
    /\ last.value = IF PreExp
                    THEN Clamp(last.pre.gasPool, 0, last.pre.perBlockGasLimit)
                    ELSE last.pre.perBlockGasLimit
    /\ ~last.err
    /\ ps = last.pre

\* The limit of a negative pool was asked for below version 4.
C7_NegativePool ==
  /\ Queried /\ Sound /\ PreExp
  /\ last.pre.gasPool < 0
  /\ last.value = 0

\* C8 (Read errors of PerBlockGasLimit are propagated): below version 4, a
\* failing read of gas_pool or of per_block_gas_limit makes the call return
\* an error.
C8_PropagatesReadErrors ==
  (Queried /\ PreExp /\ {"gasPool", "perBlockGasLimit"} \cap faulty # {}) => last.err

\* The backlogs an update at version >= 4 is compared on.
BacklogSamples ==
  {0, 1,
   InitialBacklogTolerance * InitialSpeedLimitPerSecond,
   InitialBacklogTolerance * InitialSpeedLimitPerSecond + 1,
   11 * InitialSpeedLimitPerSecond,
   50 * InitialSpeedLimitPerSecond,
   100 * InitialSpeedLimitPerSecond,
   112 * InitialSpeedLimitPerSecond,
   InitialGasPoolSeconds * InitialSpeedLimitPerSecond,
   1000 * InitialSpeedLimitPerSecond,
   MaxInt64 \div OneInBips,
   MaxInt64 \div OneInBips + 11 * InitialSpeedLimitPerSecond,
   MaxInt64 \div 2,
   MaxInt64 - 1,
   MaxInt64}

\* The base fee the last update would have stored had the backlog been b.
FeeWithBacklog(b) ==
  UpdatePricingModel([last.pre EXCEPT !.gasBacklog = b], faulty,
                     last.l2BaseFee, last.timePassed, arbosVersion,
                     last.debug).baseFeeWei

\* C9 (Monotone in excess): for an update at version >= 4, the same call on
\* a state that differs only in a larger gas_backlog stores a base fee that
\* is not smaller, and on one with a smaller backlog a fee that is not
\* larger.
C9_MonotoneInExcess ==
  (Updated /\ ~PreExp /\ Sound) =>
    \A b \in BacklogSamples :
      /\ b >= last.pre.gasBacklog => FeeWithBacklog(b) >= ps.baseFeeWei
      /\ b <= last.pre.gasBacklog => FeeWithBacklog(b) <= ps.baseFeeWei

\* An update at version >= 4 above the tolerance, with a larger backlog
\* that gives a strictly larger fee.
C9_AboveTolerance ==
  /\ Updated /\ ~PreExp /\ Sound
  /\ ps.baseFeeWei > ps.minBaseFeeWei
  /\ \E b \in BacklogSamples :
       b > last.pre.gasBacklog /\ FeeWithBacklog(b) > ps.baseFeeWei

\* C10 (Round-trip identity): an update with time_passed = 0, no gas burnt
\* since the previous update and prev_base_fee equal to the stored base fee
\* leaves the storage as it was: below version 4 at the steady state (rate
\* estimate at the speed limit, full pool) and with an empty pool, from
\* version 4 on with no backlog and the base fee at the minimum.
C10_RoundTrip ==
  (/\ Updated /\ Sound
   /\ last.timePassed = 0
   /\ last.l2BaseFee = last.pre.baseFeeWei
   /\ IF PreExp
      THEN /\ last.pre.gasPool = last.pre.gasPoolLastBlock
           /\ \/ /\ last.pre.gasPool = GasPoolMax(last.pre, faulty)
                 /\ last.pre.rateEstimate = last.pre.speedLimitPerSecond
              \/ last.pre.gasPool = 0
      ELSE /\ last.pre.gasBacklog = 0
           /\ last.pre.baseFeeWei = last.pre.minBaseFeeWei)
  => ps = last.pre

\* C11 (The debug flag does not influence outputs): the storage left by an
\* update that returned is, in every slot, the storage the same call leaves
\* with the opposite debug flag, for every state, prev_base_fee,
\* time_passed and version.
C11_DebugNoInfluence ==
  Updated =>
    ps = UpdatePricingModel(last.pre, faulty, last.l2BaseFee, last.timePassed,
                            arbosVersion, ~last.debug)

\* A pre-exponential update that printed its diagnostics and changed the
\* stored state.
C11_DebugRun ==
  /\ Updated /\ PreExp /\ last.debug
  /\ Len(DebugOutput(last.pre, faulty, last.l2BaseFee, last.timePassed,
                     arbosVersion, last.debug)) > 0
  /\ ps.gasPool # last.pre.gasPool
  /\ ps.rateEstimate # last.pre.rateEstimate

\* C12 (Arithmetic never faults): an update, at either version and for
\* every time_passed, completes without a division by zero.
C12_NeverFaults == ~Panicked

\* The backlog that is left of b after discharging speedLimit * timePassed,
\* as a natural number, is at most tolerance * speedLimit.
DischargedWithinTolerance(b, speedLimit, timePassed, tolerance) ==
  \/ b <= tolerance * speedLimit
  \/ /\ speedLimit > 0
     /\ timePassed >= (b - tolerance * speedLimit + speedLimit - 1) \div speedLimit

\* C13 (Exponential model, below tolerance): at version >= 4, whenever the
\* backlog after discharging speed_limit * time_passed is at most
\* backlog_tolerance * speed_limit (in particular whenever the backlog was 0
\* before the call), the update stores exactly the minimum base fee,
\* whatever prev_base_fee and time_passed are.
C13_BelowTolerance ==
  (/\ Updated /\ ~PreExp /\ Sound
   /\ DischargedWithinTolerance(last.pre.gasBacklog, last.pre.speedLimitPerSecond,
                                last.timePassed, last.pre.backlogTolerance))
  => ps.baseFeeWei = ps.minBaseFeeWei

\* The last step was a fake block of the pricing test.
FakeBlockDone == last.op = "fakeBlockUpdate"

\* The rate estimate is at the speed limit, the base fee at the minimum,
\* and the pool and its last-block snapshot both hold P.
Steady(pricing, P) ==
  /\ pricing.rateEstimate = pricing.speedLimitPerSecond
  /\ pricing.baseFeeWei = pricing.minBaseFeeWei
  /\ pricing.gasPool = P
  /\ pricing.gasPoolLastBlock = P

\* The pool levels of the steady-state sections: full, and at the target.
SteadyLevels == {GasPoolMax(ps, {}), poolTarget(ps)}

\* C14 (Steady state, pre-exponential): from a state with the rate estimate
\* at the speed limit, the base fee at the minimum and gas_pool =
\* gas_pool_last_block = P, P the pool maximum or the pool target, burning
\* t * speed_limit and updating at the current base fee after t seconds,
\* t in 0..3, leaves the base fee at the minimum and gas_pool = P (and the
\* rate estimate at the speed limit, so that the sequence t = 0, 1, 2, 3
\* stays in that state after every update).
C14_SteadyState ==
  \A P \in SteadyLevels :
    (/\ FakeBlockDone /\ PreExp
     /\ last.timePassed \in 0 .. 3
     /\ last.gasUsed = last.timePassed * ps.speedLimitPerSecond
     /\ Steady(last.pre, P))
    => Steady(ps, P)

\* The fourth block of the sequence, three seconds at the speed limit,
\* done at version 3 with the pool at its target.
C14_FourthBlock ==
  /\ FakeBlockDone /\ arbosVersion = 3
  /\ last.section = "pool target & speed limit"
  /\ last.blocks = SteadyBlocks
  /\ last.timePassed = 3
  /\ last.gasUsed = 3 * ps.speedLimitPerSecond
  /\ Steady(last.pre, poolTarget(ps))
  /\ Steady(ps, poolTarget(ps))

\* C15 (Sustained overshoot): from a full pool with the base fee at the
\* minimum, repeating a burn of 8 * speed_limit and an update at the current
\* base fee after one second: the base fee never decreases, it has become
\* strictly greater than its starting value before the loop is cut off, and
\* at every update up to and including the first strict increase the pool
\* is at least the pool target.
C15_Overshoot ==
  (/\ FakeBlockDone /\ PreExp
   /\ last.section = "exceeding the speed limit")
  => /\ ps.baseFeeWei >= last.pre.baseFeeWei
     /\ ps.gasPool >= poolTarget(ps)
     /\ last.blocks = MaxExceedingBlocks => ps.baseFeeWei > last.price

\* The overshoot loop has ended at version 3: the base fee has risen above
\* the minimum it started from, after more than one block.
C15_Risen ==
  /\ FakeBlockDone /\ arbosVersion = 3
  /\ last.section = "exceeding the speed limit"
  /\ last.blocks > 1
  /\ last.price = ps.minBaseFeeWei
  /\ ps.baseFeeWei > last.price
  /\ ps.gasPool < GasPoolMax(ps, {})

\* Base fees at or above the minimum.
PrevSamples ==
  {ps.minBaseFeeWei, ps.minBaseFeeWei + 1, 2 * ps.minBaseFeeWei - 1,
   2 * ps.minBaseFeeWei, 37 * ps.minBaseFeeWei, 1000 * ps.minBaseFeeWei}

\* The last step was one second without gas burnt on an empty pool whose
\* rate estimate is at the speed limit.
EmptyPoolSecond ==
  /\ FakeBlockDone /\ PreExp
  /\ last.gasUsed = 0 /\ last.timePassed = 1
  /\ last.pre.gasPool = 0 /\ last.pre.gasPoolLastBlock = 0
  /\ last.pre.rateEstimate = last.pre.speedLimitPerSecond

\* C16 (Empty-pool escalation): at a version below 4, with gas_pool =
\* gas_pool_last_block = 0 and the rate estimate at the speed limit, one
\* update after one second with no gas burnt stores a base fee strictly
\* greater than the prev_base_fee handed in, for any prev_base_fee at or
\* above the minimum.
C16_EmptyPoolEscalation ==
  EmptyPoolSecond =>
    /\ ps.baseFeeWei > last.pre.baseFeeWei
    /\ \A prev \in PrevSamples :
         UpdatePricingModel(last.pre, {}, prev, 1, arbosVersion, TRUE).baseFeeWei > prev

\* The escalation from a base fee that is already above the minimum.
C16_Escalated ==
  /\ EmptyPoolSecond
  /\ last.pre.baseFeeWei > ps.minBaseFeeWei
  /\ ps.baseFeeWei > last.pre.baseFeeWei

\* C17 (Last-block snapshot equals pool after update): after every update
\* at a version below 4 on sound storage, gas_pool and gas_pool_last_block
\* hold the same value.
C17_SnapshotEqualsPool ==
  (Updated /\ PreExp /\ Sound) => ps.gasPool = ps.gasPoolLastBlock

\* An update that found the pool below its snapshot and left both at the
\* same partly refilled level.
C17_SnapshotMoved ==
  /\ Updated /\ PreExp /\ Sound
  /\ last.pre.gasPool < last.pre.gasPoolLastBlock
  /\ ps.gasPoolLastBlock # last.pre.gasPoolLastBlock
  /\ ps.gasPool = ps.gasPoolLastBlock
  /\ ps.gasPool < GasPoolMax(ps, faulty)

\* C18 (Rate estimate tracks gas burnt): after add_to_gas_pool and an
\* update at a version below 4, the stored rate estimate is
\* (inertia * prior + gas_used) / (inertia + time_passed) rounded down and
\* saturated, gas_used being the snapshot minus the pool, both clamped to
\* the pool maximum; when that difference is negative it is not taken for
\* a huge value, so the estimate is at most inertia * prior /
\* (inertia + time_passed).
C18_RateTracksBurn ==
  (Updated /\ PreExp /\ Sound) =>
    LET poolMax == GasPoolMax(last.pre, {})
        gasUsed == MinInt(last.pre.gasPoolLastBlock, poolMax)
                     - MinInt(last.pre.gasPool, poolMax)
        inertia == last.pre.rateEstimateInertia
        memory == inertia * last.pre.rateEstimate
    IN  IF gasUsed >= 0
        THEN ps.rateEstimate
               = Clamp(memory + gasUsed, 0, MaxUint64) \div (inertia + last.timePassed)
        ELSE ps.rateEstimate <= memory \div (inertia + last.timePassed)

\* Pool levels from an emptied and overdrawn pool up to the full pool.
PoolSamples ==
  {0 - GasPoolMax(ps, {}), 0 - 8 * ps.speedLimitPerSecond, 0 - 1, 0,
   ps.speedLimitPerSecond, poolTarget(ps), GasPoolMax(ps, {})}

\* The locals of the last update had the pool held g.
LocalsWithPool(g) ==
  PreExpLocals([last.pre EXCEPT !.gasPool = g], faulty, last.l2BaseFee,
               last.timePassed, arbosVersion)

\* The base fee the update stores from its locals.
FeeOf(l) == BoundPrice(l.price, l.minPrice, l.maxPrice)

\* a <= b for two ratios.
RatioLeq(a, b) == a.num * b.den <= b.num * a.den

\* C19 (Pool ratio follows the signed pool): for an update at a version
\* below 4 on a pool at or below its snapshot and within one pool maximum
\* of zero, negative levels included: when the pool does not fill, the pool
\* ratio is max(0, (2 * target - average) / target) for the average
\* gas_pool + time_passed * speed_limit / 2 taken as a signed value; and
\* the same update on a lower pool has neither a lower pool ratio nor a
\* lower base fee, on a higher pool neither a higher ratio nor a higher
\* base fee.
C19_SignedPool ==
  (/\ Updated /\ PreExp /\ Sound
   /\ last.pre.gasPool <= last.pre.gasPoolLastBlock
   /\ last.pre.gasPool \in (0 - GasPoolMax(ps, {})) .. GasPoolMax(ps, {}))
  => LET l == LastLocals
         g == last.pre.gasPool
         speedLimit == last.pre.speedLimitPerSecond
         average == g + (last.timePassed * speedLimit) \div 2
         signed == [num |-> IF 2 * l.poolTargetGas > average
                            THEN 2 * l.poolTargetGas - average ELSE 0,
                    den |-> l.poolTargetGas]
     IN  /\ last.timePassed <= (l.poolMax - g) \div speedLimit
              => RatioLeq(signed, l.poolRatio) /\ RatioLeq(l.poolRatio, signed)
         /\ \A h \in PoolSamples :
              /\ (h <= g) =>
                    /\ RatioLeq(l.poolRatio, LocalsWithPool(h).poolRatio)
                    /\ ps.baseFeeWei <= FeeOf(LocalsWithPool(h))
              /\ (g <= h /\ h <= last.pre.gasPoolLastBlock) =>
                    /\ RatioLeq(LocalsWithPool(h).poolRatio, l.poolRatio)
                    /\ FeeOf(LocalsWithPool(h)) <= ps.baseFeeWei

\* C20 (Pool refill): an update at a version below 4 stores the new
\* gas_pool min(gas_pool_max, g + speed_limit * time_passed), g being the
\* gas_pool before clamped to the pool maximum; this includes time_passed =
\* time to full, time_passed = 0 and negative g.
C20_PoolRefill ==
  (Updated /\ PreExp /\ Sound) =>
    LET poolMax == GasPoolMax(last.pre, faulty)
        g == MinInt(last.pre.gasPool, poolMax)
        speedLimit == last.pre.speedLimitPerSecond
        toFull == (poolMax - g + speedLimit - 1) \div speedLimit
    IN  ps.gasPool = IF last.timePassed >= toFull
                     THEN poolMax ELSE g + speedLimit * last.timePassed

\* The mixed average of an update with locals l before any cap, as a signed
\* word.
UncappedAverageOf(l) == l.averageOfRatiosUnbounded

UncappedAverage == UncappedAverageOf(LastLocals)

\* The exponent of an update with locals l, (average - 100%) * time_passed
\* / 120.
ExponentOf(l) ==
  IDiv(IMul(ToInt64(l.averageOfRatios - OneInBips), ToInt64(last.timePassed)),
       120)

LastExponent == ExponentOf(LastLocals)

\* C21 (Version-gated ratio clamp): below version 3 the average of ratios
\* used in the exponent is the mixed average capped at 20000 basis points,
\* so the exponent is at most 10000 * time_passed / 120; at version 3 the
\* uncapped average is used; at both the stored fee is the price stepped by
\* that exponent, limited only by the minimum and by 2 * prev_base_fee.
\* The bound on the exponent is stated for a mixed average below 2^(w-1),
\* one the signed word holds: the largest rate estimate of a w-bit word is
\* 2^w / 60, and with the speed limit of 1000000 and the weight of 4000 of
\* the 64-bit program the mixed average stays below 2^51.  A time_passed
\* above MaxInt64 / 80 makes 10000 * time_passed / 120 exceed every word.
C21_RatioClamp ==
  (Updated /\ PreExp /\ Sound) =>
    LET l == LastLocals
        uncapped == UncappedAverageOf(l)
        exp == ExponentOf(l)
    IN  /\ arbosVersion < 3 =>
             /\ l.averageOfRatios = (IF uncapped > 20000 THEN 20000 ELSE uncapped)
             /\ \/ uncapped < 0
                \/ last.timePassed > MaxInt64 \div 80
                \/ 3 * exp <= 250 * last.timePassed
        /\ arbosVersion = 3 => l.averageOfRatios = uncapped
        /\ ps.baseFeeWei
             = BoundPrice(BigMulByBips(last.l2BaseFee, ApproxExpBasisPoints(exp)),
                          last.pre.minBaseFeeWei, 2 * last.l2BaseFee)

\* An update below version 3 whose mixed average was above 200% and was
\* capped, after some time.
C21_Capped ==
  /\ Updated /\ PreExp /\ Sound
  /\ arbosVersion < 3
  /\ UncappedAverage > 20000
  /\ LastLocals.averageOfRatios = 20000
  /\ last.timePassed > 0
  /\ LastExponent > 0

\* C22 (Exp update only discharges the backlog): an update at version >= 4
\* on sound storage leaves gas_backlog = max(0, backlog - speed_limit *
\* time_passed), the product taken as a natural number, for every
\* time_passed; in particular never a backlog larger than before the call.
C22_OnlyDischarges ==
  (Updated /\ ~PreExp /\ Sound) =>
    LET backlog == last.pre.gasBacklog
        speedLimit == last.pre.speedLimitPerSecond
        toZero == (backlog + speedLimit - 1) \div speedLimit
    IN  /\ ps.gasBacklog = IF last.timePassed >= toZero
                           THEN 0 ELSE backlog - speedLimit * last.timePassed
        /\ ps.gasBacklog <= backlog

\* The slots that hold parameters.
Parameters ==
  {"speedLimitPerSecond", "perBlockGasLimit", "minBaseFeeWei", "gasPoolSeconds",
   "gasPoolTarget", "gasPoolWeight", "rateEstimateInertia", "pricingInertia",
   "backlogTolerance"}

\* The slots whose value the last call changed.
Changed == {slot \in Slots : ps[slot] # last.pre[slot]}

\* C23 (Version isolation of state): from version 4 on, AddToGasPool
\* changes at most gas_backlog and UpdatePricingModel at most gas_backlog
\* and base_fee_wei, so gas_pool, gas_pool_last_block and rate_estimate are
\* left alone; below version 4 neither changes gas_backlog; and no call at
\* any version changes a parameter.
C23_VersionIsolation ==
  /\ Changed \cap Parameters = {}
  /\ (last.op = "AddToGasPool" /\ ~PreExp) => Changed \subseteq {"gasBacklog"}
  /\ (last.op = "UpdatePricingModel" /\ ~PreExp)
       => Changed \subseteq {"gasBacklog", "baseFeeWei"}
  /\ (last.op \in {"AddToGasPool", "UpdatePricingModel"} /\ PreExp)
       => "gasBacklog" \notin Changed
  /\ last.op = "PerBlockGasLimit" => Changed = {}

\* An update from version 4 on that changed both slots it may write, on a
\* state whose legacy pool is full.
C23_ExpWrote ==
  /\ Updated /\ ~PreExp
  /\ Changed = {"gasBacklog", "baseFeeWei"}
  /\ ps.gasPool = last.pre.gasPool

\* Base fees below, at and above the minimum.
AnyFees ==
  {0, 1, ps.minBaseFeeWei \div 3, ps.minBaseFeeWei, 2 * ps.minBaseFeeWei,
   1000 * ps.minBaseFeeWei}

\* A fresh state that shares with s only the minimum base fee, the
\* backlog, the speed limit, the tolerance and the pricing inertia.
OnlyExpInputs(s) ==
  [InitializeL2PricingState EXCEPT
     !.minBaseFeeWei = s.minBaseFeeWei, !.gasBacklog = s.gasBacklog,
     !.speedLimitPerSecond = s.speedLimitPerSecond,
     !.backlogTolerance = s.backlogTolerance, !.pricingInertia = s.pricingInertia]

\* C24 (The exponential controller is memoryless in the price): the base
\* fee stored by an update at version >= 4 is the one the same call stores
\* for any other prev_base_fee and any other previously stored base fee,
\* and the one it stores on a state that agrees only in min_base_fee_wei,
\* gas_backlog, speed_limit, backlog_tolerance and pricing_inertia.
C24_Memoryless ==
  (Updated /\ ~PreExp) =>
    /\ \A prev \in AnyFees, stored \in {0, 1000 * ps.minBaseFeeWei} :
         UpdatePricingModel([last.pre EXCEPT !.baseFeeWei = stored], faulty, prev,
                            last.timePassed, arbosVersion, last.debug).baseFeeWei
           = ps.baseFeeWei
    /\ UpdatePricingModel(OnlyExpInputs(last.pre), faulty, last.l2BaseFee,
                          last.timePassed, arbosVersion, last.debug).baseFeeWei
         = ps.baseFeeWei

\* An update at version >= 4 that stored more than twice the fee handed in,
\* itself at or above the minimum.
C24_Jump ==
  /\ Updated /\ ~PreExp /\ Sound
  /\ last.l2BaseFee >= ps.minBaseFeeWei
  /\ last.l2BaseFee = last.pre.baseFeeWei
  /\ ps.baseFeeWei > 2 * last.l2BaseFee

\* The i-th block of the input cannot extend a chain of i - 1 blocks that
\* ends in hash h, or cannot be read or written.
Rejected(block, i, h) ==
  \/ block.readErr \/ block.writeErr
  \/ block.number # i - 1
  \/ block.parentHash # h

\* The hash of the last block of a list, the zero hash for the empty list.
HashOfLast(blocks) ==
  IF Len(blocks) = 0 THEN ZeroHash ELSE blocks[Len(blocks)].hash

\* C25 (scanAndCopyBlocks writes only a valid chain prefix): the blocks
\* written are the first n blocks of the input; the i-th of them (from 0)
\* has number i and as parent hash the hash of the one before, the zero
\* hash for block 0; the count and hash held (and returned) are n and the
\* hash of the last written block; a run that returned an error stopped at
\* block n + 1, which is rejected and not written, and read nothing after
\* it; a run that has not returned an error has met no rejected block.
C25_ValidPrefix ==
  LET n == Len(scan.written)
  IN  /\ n <= Len(scan.input)
      /\ scan.written = SubSeq(scan.input, 1, n)
      /\ \A i \in 1 .. n :
           /\ scan.written[i].number = i - 1
           /\ scan.written[i].parentHash = HashOfLast(SubSeq(scan.written, 1, i - 1))
           /\ ~Rejected(scan.written[i], i, HashOfLast(SubSeq(scan.written, 1, i - 1)))
      /\ scan.blockNum = n
      /\ scan.lastHash = HashOfLast(scan.written)
      /\ IF scan.err # "none"
         THEN /\ scan.returned
              /\ Len(scan.input) = n + 1
              /\ Rejected(scan.input[n + 1], n + 1, scan.lastHash)
         ELSE Len(scan.input) = n

\* A run that copied two blocks and stopped with an error at a third whose
\* number is right and whose parent hash is wrong.
C25_StoppedAtBadParent ==
  /\ scan.returned /\ scan.err = "parent"
  /\ Len(scan.written) = 2
  /\ scan.input[3].number = 2
  /\ scan.input[3].parentHash # scan.written[2].hash
  /\ scan.blockNum = 2

====
